---- MODULE Spec2Model ----
(***************************************************************************)
(* A model of vimeo/automaton/src/automaton/automaton.py: the run of       *)
(* main() (identity resolution, the paginated listing of                   *)
(* get_all_user_videos, the first statement of the filter loop) and the    *)
(* title-update loop of main() with update_video_title (SpecUpdater), the  *)
(* same loop over runs in a row (SpecRerun), the body of the filter loop   *)
(* (SpecFilter) and the URI codec (SpecCodec).                             *)
(*                                                                         *)
(* Python strings are sequences of one-character strings; the value None   *)
(* is the one-element sequence None, which is no string of the model.      *)
(***************************************************************************)
EXTENDS Integers, Sequences, FiniteSets, TLC

(* ----------------------------------------------------------------------- *)
(* Bounds of the model                                                     *)
(* ----------------------------------------------------------------------- *)

\* Pages the remote lets a listing run to: the response to page MaxPages
\* carries no next link.
MaxPages == 3

\* Videos on one page of the listing.
MaxPageLen == 2

\* Videos handed to the title-update loop.
MaxVideos == 2

\* Runs of main() in a row over the same remote videos.
MaxRuns == 3

\* Characters after the prefix in the URIs handed to the codec.
MaxTail == 2

(* ----------------------------------------------------------------------- *)
(* Strings                                                                 *)
(* ----------------------------------------------------------------------- *)

None == <<"<None>">>

Digits == {"0", "1", "2", "3", "4", "5", "6", "7", "8", "9"}

Chars ==
  Digits \cup {"-", ":", "T", "Z", "+", "/", " ", "(", ")", "S", "x",
               "v", "i", "d", "e", "o", "s", "f", "l", "r", "u", "a", "b", "c"}

\* isinstance(v, str)
IsStr(v) == \A i \in 1..Len(v) : v[i] \in Chars

\* Python truthiness of a value that is None or a string: `if v:`
Truthy(v) == IsStr(v) /\ Len(v) > 0

DigitVal(c) ==
  CASE c = "0" -> 0 [] c = "1" -> 1 [] c = "2" -> 2 [] c = "3" -> 3
    [] c = "4" -> 4 [] c = "5" -> 5 [] c = "6" -> 6 [] c = "7" -> 7
    [] c = "8" -> 8 [] c = "9" -> 9

DigitChar(n) ==
  CASE n = 0 -> "0" [] n = 1 -> "1" [] n = 2 -> "2" [] n = 3 -> "3"
    [] n = 4 -> "4" [] n = 5 -> "5" [] n = 6 -> "6" [] n = 7 -> "7"
    [] n = 8 -> "8" [] n = 9 -> "9"

\* s[i..j] exists and is all digits
AllDigits(s, i, j) == j <= Len(s) /\ \A k \in i..j : s[k] \in Digits

RECURSIVE NumVal(_, _, _)
\* int(s[i..j])
NumVal(s, i, j) ==
  IF j < i THEN 0 ELSE NumVal(s, i, j - 1) * 10 + DigitVal(s[j])

\* `needle in hay` on strings
Contains(needle, hay) ==
  \E i \in 0..(Len(hay) - Len(needle)) :
    SubSeq(hay, i + 1, i + Len(needle)) = needle

RECURSIVE ReplaceZ(_)
\* s.replace('Z', '+00:00')
ReplaceZ(s) ==
  IF s = <<>> THEN <<>>
  ELSE (IF Head(s) = "Z" THEN <<"+", "0", "0", ":", "0", "0">> ELSE <<Head(s)>>)
       \o ReplaceZ(Tail(s))

(* ----------------------------------------------------------------------- *)
(* datetime: fromisoformat, strftime, comparison                           *)
(* ----------------------------------------------------------------------- *)

IsLeap(y) == (y % 4 = 0 /\ y % 100 # 0) \/ y % 400 = 0

DaysInMonth(y, m) ==
  CASE m \in {1, 3, 5, 7, 8, 10, 12} -> 31
    [] m \in {4, 6, 9, 11} -> 30
    [] OTHER -> IF IsLeap(y) THEN 29 ELSE 28

\* The result of a parse that raised ValueError.
BadDateTime ==
  [ok |-> FALSE, year |-> 0, month |-> 0, day |-> 0,
   hour |-> 0, minute |-> 0, second |-> 0, aware |-> FALSE, offset |-> 0]

\* "HH", "HH:MM" or "HH:MM:SS"
ClockOk(c) ==
  /\ Len(c) \in {2, 5, 8}
  /\ AllDigits(c, 1, 2) /\ NumVal(c, 1, 2) <= 23
  /\ Len(c) >= 5 => (c[3] = ":" /\ AllDigits(c, 4, 5) /\ NumVal(c, 4, 5) <= 59)
  /\ Len(c) = 8 => (c[6] = ":" /\ AllDigits(c, 7, 8) /\ NumVal(c, 7, 8) <= 59)

\* "+HH:MM" or "-HH:MM"
ZoneOk(z) ==
  /\ Len(z) = 6
  /\ z[1] \in {"+", "-"}
  /\ AllDigits(z, 2, 3) /\ NumVal(z, 2, 3) <= 23
  /\ z[4] = ":"
  /\ AllDigits(z, 5, 6) /\ NumVal(z, 5, 6) <= 59

\* The UTC offset of a zone, in minutes.
ZoneMinutes(z) ==
  (IF z[1] = "-" THEN -1 ELSE 1) * (NumVal(z, 2, 3) * 60 + NumVal(z, 5, 6))

\* "YYYY-MM-DD" at the head of s, a date of the calendar
DateOk(s) ==
  /\ Len(s) >= 10
  /\ AllDigits(s, 1, 4) /\ s[5] = "-" /\ AllDigits(s, 6, 7) /\ s[8] = "-"
  /\ AllDigits(s, 9, 10)
  /\ NumVal(s, 1, 4) >= 1
  /\ NumVal(s, 6, 7) \in 1..12
  /\ NumVal(s, 9, 10) \in 1..DaysInMonth(NumVal(s, 1, 4), NumVal(s, 6, 7))

\* datetime.fromisoformat(s) for the forms YYYY-MM-DD[*HH[:MM[:SS]][+HH:MM]]
\* (no fractional seconds); ok = FALSE stands for ValueError.
fromisoformat(s) ==
  IF ~DateOk(s) THEN BadDateTime
  ELSE LET date == [year |-> NumVal(s, 1, 4), month |-> NumVal(s, 6, 7),
                    day |-> NumVal(s, 9, 10)]
           rest == SubSeq(s, 12, Len(s))
           signs == {i \in 1..Len(rest) : rest[i] \in {"+", "-"}}
           cut == IF signs = {} THEN Len(rest) + 1
                  ELSE CHOOSE i \in signs : \A j \in signs : i <= j
           clock == SubSeq(rest, 1, cut - 1)
           zone == SubSeq(rest, cut, Len(rest))
       IN IF Len(s) = 10
          THEN [ok |-> TRUE, year |-> date.year, month |-> date.month,
                day |-> date.day, hour |-> 0, minute |-> 0, second |-> 0,
                aware |-> FALSE, offset |-> 0]
          ELSE IF ~ClockOk(clock) \/ (zone # <<>> /\ ~ZoneOk(zone))
          THEN BadDateTime
          ELSE [ok |-> TRUE, year |-> date.year, month |-> date.month,
                day |-> date.day,
                hour |-> NumVal(clock, 1, 2),
                minute |-> IF Len(clock) >= 5 THEN NumVal(clock, 4, 5) ELSE 0,
                second |-> IF Len(clock) = 8 THEN NumVal(clock, 7, 8) ELSE 0,
                aware |-> zone # <<>>,
                offset |-> IF zone # <<>> THEN ZoneMinutes(zone) ELSE 0]

RECURSIVE Pad(_, _)
\* n written in w digits, zero-padded (%Y is 4 wide, %m and %d are 2 wide)
Pad(n, w) ==
  IF w = 0 THEN <<>> ELSE Pad(n \div 10, w - 1) \o <<DigitChar(n % 10)>>

\* dt.strftime(DATE_FORMAT), DATE_FORMAT = "%Y-%m-%d"
strftime(dt) ==
  Pad(dt.year, 4) \o <<"-">> \o Pad(dt.month, 2) \o <<"-">> \o Pad(dt.day, 2)

RECURSIVE DaysBeforeMonth(_, _)
DaysBeforeMonth(y, m) ==
  IF m = 1 THEN 0 ELSE DaysBeforeMonth(y, m - 1) + DaysInMonth(y, m - 1)

\* Seconds from 2000-01-01T00:00:00Z to the instant of an aware datetime of the
\* years 2000..2067: what the comparison of two aware datetimes compares.
Instant(dt) ==
  ((365 * (dt.year - 2000) + ((dt.year - 2000 + 3) \div 4)
      + DaysBeforeMonth(dt.year, dt.month) + (dt.day - 1)) * 24 + dt.hour) * 3600
  + (dt.minute - dt.offset) * 60 + dt.second

(* ----------------------------------------------------------------------- *)
(* Configuration and the URI codec                                         *)
(* ----------------------------------------------------------------------- *)

LOOKBACK_HOURS == 48

EXCLUDED_FOLDER_IDS ==
  { <<"1", "1", "1", "0", "3", "4", "3", "0">>,
    <<"8", "2", "1", "9", "9", "9", "2">>,
    <<"6", "0", "0", "2", "8", "4", "9">> }

VideosPrefix == <<"/", "v", "i", "d", "e", "o", "s", "/">>

\* Where the pattern /videos/(\d+) matches in uri: "/videos/" and one digit.
MatchStarts(uri) ==
  {i \in 1..Len(uri) :
     /\ i + Len(VideosPrefix) <= Len(uri)
     /\ SubSeq(uri, i, i + Len(VideosPrefix) - 1) = VideosPrefix
     /\ uri[i + Len(VideosPrefix)] \in Digits}

RECURSIVE DigitRun(_, _)
\* The longest run of digits of s from position i on: what (\d+) captures.
DigitRun(s, i) ==
  IF i <= Len(s) /\ s[i] \in Digits THEN <<s[i]>> \o DigitRun(s, i + 1) ELSE <<>>

\* re.search takes the leftmost match.
get_video_id_from_uri_leftmost(uri) ==
  LET first == CHOOSE i \in MatchStarts(uri) : \A j \in MatchStarts(uri) : i <= j
  IN DigitRun(uri, first + Len(VideosPrefix))

get_video_id_from_uri(uri) ==
  IF ~IsStr(uri) \/ uri = <<>> THEN None
  ELSE IF MatchStarts(uri) = {} THEN None
  ELSE get_video_id_from_uri_leftmost(uri)

\* What a call comes to when the name called is bound nowhere in the module.
NameError == <<"<NameError>">>

\* The call of line 324. No statement of automaton.py binds the name
\* get_folder_id_from_uri (no def, no import, no assignment): evaluating the
\* call raises NameError whatever the argument is.
get_folder_id_from_uri(uri) == NameError

RECURSIVE LastSegment(_)
\* s.split('/')[-1]
LastSegment(s) ==
  IF s = <<>> THEN <<>>
  ELSE IF s[Len(s)] = "/" THEN <<>>
  ELSE LastSegment(SubSeq(s, 1, Len(s) - 1)) \o <<s[Len(s)]>>

(* ----------------------------------------------------------------------- *)
(* The remote account the run talks to                                     *)
(* ----------------------------------------------------------------------- *)

NoFolder == [kind |-> "none", uri |-> None]

InFolder(id) == [kind |-> "dict", uri |-> <<"/", "f", "o", "l", "d", "e", "r", "s", "/">> \o id]

\* datetime.now(timezone.utc) of the run: 2024-03-10T14:00:00+00:00
NowStr ==
  <<"2", "0", "2", "4", "-", "0", "3", "-", "1", "0", "T",
    "1", "4", ":", "0", "0", ":", "0", "0", "+", "0", "0", ":", "0", "0">>

\* "2024-03-<dd>T<hh>:00:00Z"
Stamp(dd, hh) ==
  <<"2", "0", "2", "4", "-", "0", "3", "-">> \o dd \o <<"T">> \o hh
    \o <<":", "0", "0", ":", "0", "0", "Z">>

\* Uploaded 1 hour before the run, in an excluded folder.
VidA ==
  [uri |-> VideosPrefix \o <<"1">>, name |-> <<"S">>,
   created_time |-> Stamp(<<"1", "0">>, <<"1", "3">>),
   parent_folder |-> InFolder(<<"6", "0", "0", "2", "8", "4", "9">>)]

\* Uploaded 2 hours before the run, in no folder.
VidB ==
  [uri |-> VideosPrefix \o <<"2">>, name |-> <<"S">>,
   created_time |-> Stamp(<<"1", "0">>, <<"1", "2">>),
   parent_folder |-> NoFolder]

\* Uploaded 72 hours before the run, in no folder.
VidC ==
  [uri |-> VideosPrefix \o <<"3">>, name |-> <<"S">>,
   created_time |-> Stamp(<<"0", "7">>, <<"1", "4">>),
   parent_folder |-> NoFolder]

\* Uploaded 96 hours before the run, in a folder that is not excluded.
VidD ==
  [uri |-> VideosPrefix \o <<"4">>, name |-> <<"S">>,
   created_time |-> Stamp(<<"0", "6">>, <<"1", "4">>),
   parent_folder |-> InFolder(<<"5">>)]

Library == {VidA, VidB, VidC, VidD}

\* Line 295: datetime.now(timezone.utc) - timedelta(hours=LOOKBACK_HOURS)
Cutoff == Instant(fromisoformat(NowStr)) - LOOKBACK_HOURS * 3600

\* The instant of a video's 'created_time', read as lines 342 and 462 read it.
CreatedAt(v) == Instant(fromisoformat(ReplaceZ(v.created_time)))

Range(seq) == {seq[i] : i \in 1..Len(seq)}

\* The sequences of at most n distinct videos of the set S
RECURSIVE Arrangements(_, _)
Arrangements(S, n) ==
  IF n = 0 THEN {<<>>}
  ELSE {<<>>} \cup {<<v>> \o rest : v \in S, rest \in Arrangements(S, n - 1)}

DistinctArrangements(S, n) ==
  {a \in Arrangements(S, n) : Cardinality(Range(a)) = Len(a)}

RECURSIVE Flatten(_)
\* The videos of a sequence of responses, in the order they arrived
Flatten(pages) ==
  IF pages = <<>> THEN <<>> ELSE Head(pages).data \o Flatten(Tail(pages))

\* What GET /me can come to: a transport failure, an error status, a body
\* that does not decode, or a decoded body with its 'uri' (None: no 'uri').
MeResponses ==
  { [kind |-> "connection_error", uri |-> None],
    [kind |-> "http_error", uri |-> None],
    [kind |-> "bad_json", uri |-> None],
    [kind |-> "ok", uri |-> None],
    [kind |-> "ok", uri |-> <<>>],
    [kind |-> "ok", uri |-> <<"/", "u", "s", "e", "r", "s", "/", "7">>],
    [kind |-> "ok", uri |-> <<"/", "u", "s", "e", "r", "s", "/", "7", "/">>] }

FailureKinds ==
  {"connection_error", "http_error", "bad_json", "no_data", "body_not_object",
   "data_not_list"}

\* What GET /me/videos?page=p can come to when the videos in `listed` were on
\* earlier pages: a failure, or a page of videos with its paging ("next": a
\* next link; "last": none; "malformed": 'paging' is no object).
ListResponses(listed, p) ==
  {[kind |-> k, data |-> <<>>, paging |-> "last"] : k \in FailureKinds}
  \cup
  {[kind |-> "ok", data |-> d, paging |-> g] :
     d \in DistinctArrangements(Library \ Range(listed), MaxPageLen),
     g \in (IF p < MaxPages THEN {"next"} ELSE {}) \cup {"last", "malformed"}}

(* ----------------------------------------------------------------------- *)
(* The state of a run                                                      *)
(* ----------------------------------------------------------------------- *)

VARIABLES
  pc,                       \* where main() stands
  exit,                     \* how main() ended ("running" until it has)
  credentials,              \* whether the environment holds the credentials
  calls,                    \* the requests sent to the remote, in order
  me_response,              \* the response to GET /me (NoResponse before it)
  pages_seen,               \* the responses to GET /me/videos, in order
  authenticated_user_id,    \* main: authenticated_user_id (None before 286)
  forty_eight_hours_ago,    \* main: the cutoff, an instant (0 before 295)
  all_videos,               \* get_all_user_videos: all_videos
  page,                     \* get_all_user_videos: page
  all_user_videos,          \* main: all_user_videos
  videos_to_process,        \* main: videos_to_process
  skipped_by_folder_count,  \* main: skipped_by_folder_count (0 before 306)
  skipped_by_time_count,    \* main: skipped_by_time_count (0 before 307)
  all_recent_videos_from_scanned_folders, \* main: the update loop's input
  i,                        \* main: the update loop's position, from 1
  processed_count,          \* main: processed_count (0 before 426)
  skipped_count,            \* main: skipped_count (0 before 427)
  outcomes,                 \* the branch each video of the update loop took
  patch_results,            \* what each PATCH request came to, in order
  summary_printed,          \* whether lines 487-490 have run
  remote_title,             \* the remote: the title of each video it tracks
  run,                      \* which run of main() this is, from 1
  rewrites,                 \* per tracked video, the runs whose PATCH was accepted
  codec_uri,                \* the argument the URI codec is called on
  codec_video_id,           \* what get_video_id_from_uri(codec_uri) came to
  codec_folder_id           \* what get_folder_id_from_uri(codec_uri) came to

vars ==
  <<pc, exit, credentials, calls, me_response, pages_seen, authenticated_user_id,
    forty_eight_hours_ago, all_videos, page, all_user_videos, videos_to_process,
    skipped_by_folder_count, skipped_by_time_count,
    all_recent_videos_from_scanned_folders, i, processed_count, skipped_count,
    outcomes, patch_results, summary_printed, remote_title, run, rewrites,
    codec_uri, codec_video_id, codec_folder_id>>

listerVars == <<pages_seen, all_videos, page>>

filterVars == <<all_user_videos, videos_to_process, skipped_by_folder_count,
                skipped_by_time_count>>

remoteVars == <<remote_title, run, rewrites>>

codecVars == <<codec_uri, codec_video_id, codec_folder_id>>

updateVars == <<all_recent_videos_from_scanned_folders, i, processed_count,
                skipped_count, outcomes, patch_results, summary_printed>>

\* A request as the log keeps it: the page asked for (0: none), the video
\* addressed and the 'name' of the body (None: none), and the position of the
\* update loop that sent it (0: sent outside the loop).
Call(op, pg, id, name, at) ==
  [op |-> op, page |-> pg, video_id |-> id, name |-> name, at |-> at]

GetMe == Call("GET /me", 0, None, None, 0)

GetVideos(pg) == Call("GET /me/videos", pg, None, None, 0)

PatchVideo(id, name, at) == Call("PATCH /videos/{id}", 0, id, name, at)

\* The videos whose title at the remote is followed.
AssetIds == {<<"1">>, <<"2">>}

\* No call of the codec function yet.
NotCalled == <<"<not called>">>

\* No response to GET /me yet.
NoResponse == [kind |-> "none", uri |-> None]

Init ==
  /\ pc = "start"
  /\ exit = "running"
  /\ credentials \in BOOLEAN
  /\ calls = <<>>
  /\ me_response = NoResponse
  /\ pages_seen = <<>>
  /\ authenticated_user_id = None
  /\ forty_eight_hours_ago = 0
  /\ all_videos = <<>>
  /\ page = 1
  /\ all_user_videos = <<>>
  /\ videos_to_process = <<>>
  /\ skipped_by_folder_count = 0
  /\ skipped_by_time_count = 0
  /\ all_recent_videos_from_scanned_folders = <<>>
  /\ i = 1
  /\ processed_count = 0
  /\ skipped_count = 0
  /\ outcomes = <<>>
  /\ patch_results = <<>>
  /\ summary_printed = FALSE
  /\ remote_title = [id \in AssetIds |-> None]
  /\ run = 1
  /\ rewrites = [id \in AssetIds |-> <<>>]
  /\ codec_uri = None
  /\ codec_video_id = NotCalled
  /\ codec_folder_id = NotCalled

(* ----------------------------------------------------------------------- *)
(* get_authenticated_user_id and the head of main()                        *)
(* ----------------------------------------------------------------------- *)

\* Lines 39-55: the id is the last segment of the 'uri' of a decoded body;
\* every failure is caught and gives None.
get_authenticated_user_id(r) ==
  IF r.kind = "ok" /\ Truthy(r.uri) THEN LastSegment(r.uri) ELSE None

\* Line 287 without its check: the run goes on without a user id.
NoUserId_unchecked(uid) == FALSE

\* Line 287: `if not authenticated_user_id`
NoUserId(uid) == ~Truthy(uid)

\* Lines 281-284: without credentials main() returns before any request.
CheckCredentials ==
  /\ pc = "start"
  /\ IF credentials
     THEN pc' = "identity" /\ exit' = exit
     ELSE pc' = "done" /\ exit' = "no_credentials"
  /\ UNCHANGED <<credentials, remoteVars, codecVars, calls, me_response, authenticated_user_id,
                 forty_eight_hours_ago, listerVars, filterVars, updateVars>>

\* Lines 286-296: one GET /me; no user id ends the run, else the cutoff is
\* computed and the listing starts.
ResolveIdentity ==
  /\ pc = "identity"
  /\ \E r \in MeResponses :
       LET uid == get_authenticated_user_id(r)
       IN /\ calls' = Append(calls, GetMe)
          /\ me_response' = r
          /\ authenticated_user_id' = uid
          /\ IF NoUserId(uid)
             THEN /\ pc' = "done"
                  /\ exit' = "no_user_id"
                  /\ forty_eight_hours_ago' = forty_eight_hours_ago
             ELSE /\ pc' = "listing"
                  /\ exit' = exit
                  /\ forty_eight_hours_ago' = Cutoff
  /\ UNCHANGED <<credentials, remoteVars, codecVars, listerVars, filterVars, updateVars>>

(* ----------------------------------------------------------------------- *)
(* get_all_user_videos                                                     *)
(* ----------------------------------------------------------------------- *)

SelectNewer(data) ==
  LET Newer(v) == CreatedAt(v) > Cutoff IN SelectSeq(data, Newer)

\* The loop with an early exit: it also stops at a page that holds a video
\* created at or before the cutoff.
ListerStep_early_exit(videos, pg, r) ==
  IF r.kind \in FailureKinds \/ r.data = <<>>
  THEN [all_videos |-> videos, page |-> pg, stop |-> TRUE]
  ELSE IF r.paging # "next" \/ SelectNewer(r.data) # r.data
  THEN [all_videos |-> videos \o r.data, page |-> pg, stop |-> TRUE]
  ELSE [all_videos |-> videos \o r.data, page |-> pg + 1, stop |-> FALSE]

\* The loop keeping only the videos created after the cutoff.
ListerStep_newer_only(videos, pg, r) ==
  IF r.kind \in FailureKinds \/ r.data = <<>>
  THEN [all_videos |-> videos, page |-> pg, stop |-> TRUE]
  ELSE IF r.paging # "next"
  THEN [all_videos |-> videos \o SelectNewer(r.data), page |-> pg, stop |-> TRUE]
  ELSE [all_videos |-> videos \o SelectNewer(r.data), page |-> pg + 1, stop |-> FALSE]

\* The loop going on to the next page after an error status.
ListerStep_skip_failed_page(videos, pg, r) ==
  IF r.kind = "http_error" /\ pg < MaxPages
  THEN [all_videos |-> videos, page |-> pg + 1, stop |-> FALSE]
  ELSE IF r.kind \in FailureKinds \/ r.data = <<>>
  THEN [all_videos |-> videos, page |-> pg, stop |-> TRUE]
  ELSE IF r.paging # "next"
  THEN [all_videos |-> videos \o r.data, page |-> pg, stop |-> TRUE]
  ELSE [all_videos |-> videos \o r.data, page |-> pg + 1, stop |-> FALSE]

\* The loop without the check of line 103: an empty page with a next link
\* is followed by the next page.
ListerStep_no_empty_check(videos, pg, r) ==
  IF r.kind \in FailureKinds
  THEN [all_videos |-> videos, page |-> pg, stop |-> TRUE]
  ELSE IF r.paging # "next"
  THEN [all_videos |-> videos \o r.data, page |-> pg, stop |-> TRUE]
  ELSE [all_videos |-> videos \o r.data, page |-> pg + 1, stop |-> FALSE]

\* One pass of the loop of lines 71-125 on the response r to page pg:
\* a failure breaks (83, 92, 96, 101 and the handlers 115-125); an empty
\* page breaks (103); else the page is added (106) and the loop goes on
\* to page pg + 1 only on a next link (109-112; a 'paging' that is no object
\* raises at 109 after the page was added, caught at 123).
ListerStep(videos, pg, r) ==
  IF r.kind \in FailureKinds \/ r.data = <<>>
  THEN [all_videos |-> videos, page |-> pg, stop |-> TRUE]
  ELSE IF r.paging # "next"
  THEN [all_videos |-> videos \o r.data, page |-> pg, stop |-> TRUE]
  ELSE [all_videos |-> videos \o r.data, page |-> pg + 1, stop |-> FALSE]

\* Lines 71-125: request page `page` and act on the response.
FetchPage ==
  /\ pc = "listing"
  /\ \E r \in ListResponses(Flatten(pages_seen), page) :
       LET step == ListerStep(all_videos, page, r)
       IN /\ calls' = Append(calls, GetVideos(page))
          /\ pages_seen' = Append(pages_seen, r)
          /\ all_videos' = step.all_videos
          /\ page' = step.page
          /\ pc' = IF step.stop THEN "listed" ELSE "listing"
  /\ UNCHANGED <<exit, credentials, remoteVars, codecVars, me_response, authenticated_user_id,
                 forty_eight_hours_ago, filterVars, updateVars>>

(* ----------------------------------------------------------------------- *)
(* main() after the listing                                                *)
(* ----------------------------------------------------------------------- *)

\* Lines 126-127 and 299-307: the list is returned; an empty one ends the
\* run, else the filter's variables are set.
ListerReturn ==
  /\ pc = "listed"
  /\ all_user_videos' = all_videos
  /\ IF all_videos = <<>>
     THEN pc' = "done" /\ exit' = "no_videos"
     ELSE pc' = "filter" /\ exit' = exit
  /\ videos_to_process' = <<>>
  /\ skipped_by_folder_count' = 0
  /\ skipped_by_time_count' = 0
  /\ UNCHANGED <<credentials, remoteVars, codecVars, calls, me_response, authenticated_user_id,
                 forty_eight_hours_ago, listerVars, updateVars>>

\* Lines 310-311: the first statement of the filter loop reads main's local
\* `video`, which only line 407 binds: UnboundLocalError, in no try block.
\* No run of main() executes a statement after line 311.
FilterLoop ==
  /\ pc = "filter"
  /\ pc' = "done"
  /\ exit' = "UnboundLocalError"
  /\ UNCHANGED <<credentials, remoteVars, codecVars, calls, me_response, authenticated_user_id,
                 forty_eight_hours_ago, listerVars, filterVars, updateVars>>

Next ==
  \/ CheckCredentials
  \/ ResolveIdentity
  \/ FetchPage
  \/ ListerReturn
  \/ FilterLoop

Spec == Init /\ [][Next]_vars

(* ----------------------------------------------------------------------- *)
(* The title-update loop of main(), lines 426-490, and update_video_title  *)
(* ----------------------------------------------------------------------- *)

\* The videos the loop is run on: every combination of a 'uri' (missing,
\* of a video, without digits), a 'name' (missing, undated, dated
\* 2024-03-10) and a 'created_time' (missing, two instants, no ISO string).
UpdateInputs ==
  [uri : {None, VideosPrefix \o <<"1">>, VideosPrefix \o <<"a">>},
   name : {None, <<"S">>,
           <<"S", " ", "(", "2", "0", "2", "4", "-", "0", "3", "-", "1", "0", ")">>},
   created_time : {None, VidA.created_time, VidC.created_time, <<"x">>},
   parent_folder : {NoFolder}]

RECURSIVE Lists(_, _)
\* The sequences of at most n elements of S
Lists(S, n) ==
  IF n = 0 THEN {<<>>}
  ELSE {<<>>} \cup {<<v>> \o rest : v \in S, rest \in Lists(S, n - 1)}

\* ' (' + formatted_date + ')' appended to the title: line 472
NewTitle(current_title, formatted_date) ==
  current_title \o <<" ", "(">> \o formatted_date \o <<")">>

\* The decision without the check of line 467: a dated title is dated again.
TitleDecision_no_date_check(video_info) ==
  LET video_id == get_video_id_from_uri(video_info.uri)
      dt_object == fromisoformat(ReplaceZ(video_info.created_time))
      skip(branch) == [branch |-> branch, video_id |-> None, new_title |-> None]
  IN IF ~Truthy(video_info.uri) THEN skip("missing_uri")
     ELSE IF ~Truthy(video_id) THEN skip("no_video_id")
     ELSE IF ~Truthy(video_info.name) THEN skip("no_title")
     ELSE IF ~Truthy(video_info.created_time) THEN skip("no_created_time")
     ELSE IF ~dt_object.ok THEN skip("parse_error")
     ELSE [branch |-> "rewrite", video_id |-> video_id,
           new_title |-> NewTitle(video_info.name, strftime(dt_object))]

\* The decision with the date of the run in place of the upload date.
TitleDecision_date_of_run(video_info) ==
  LET video_id == get_video_id_from_uri(video_info.uri)
      dt_object == fromisoformat(ReplaceZ(video_info.created_time))
      formatted_date == strftime(fromisoformat(NowStr))
      skip(branch) == [branch |-> branch, video_id |-> None, new_title |-> None]
  IN IF ~Truthy(video_info.uri) THEN skip("missing_uri")
     ELSE IF ~Truthy(video_id) THEN skip("no_video_id")
     ELSE IF ~Truthy(video_info.name) THEN skip("no_title")
     ELSE IF ~Truthy(video_info.created_time) THEN skip("no_created_time")
     ELSE IF ~dt_object.ok THEN skip("parse_error")
     ELSE IF Contains(formatted_date, video_info.name) THEN skip("already_dated")
     ELSE [branch |-> "rewrite", video_id |-> video_id,
           new_title |-> NewTitle(video_info.name, formatted_date)]

\* The decision with `==` in place of `in` at line 467: only a title that is
\* the date and nothing else counts as dated.
TitleDecision_title_is_date(video_info) ==
  LET video_id == get_video_id_from_uri(video_info.uri)
      dt_object == fromisoformat(ReplaceZ(video_info.created_time))
      formatted_date == strftime(dt_object)
      skip(branch) == [branch |-> branch, video_id |-> None, new_title |-> None]
  IN IF ~Truthy(video_info.uri) THEN skip("missing_uri")
     ELSE IF ~Truthy(video_id) THEN skip("no_video_id")
     ELSE IF ~Truthy(video_info.name) THEN skip("no_title")
     ELSE IF ~Truthy(video_info.created_time) THEN skip("no_created_time")
     ELSE IF ~dt_object.ok THEN skip("parse_error")
     ELSE IF formatted_date = video_info.name THEN skip("already_dated")
     ELSE [branch |-> "rewrite", video_id |-> video_id,
           new_title |-> NewTitle(video_info.name, formatted_date)]

\* Lines 431-473 for one video: the branch taken before any request, with
\* the id and the title of the request when the branch is "rewrite".
TitleDecision(video_info) ==
  LET video_uri == video_info.uri
      current_title == video_info.name
      upload_date_str == video_info.created_time
      video_id == get_video_id_from_uri(video_uri)
      dt_object == fromisoformat(ReplaceZ(upload_date_str))
      formatted_date == strftime(dt_object)
      skip(branch) == [branch |-> branch, video_id |-> None, new_title |-> None]
  IN IF ~Truthy(video_uri) THEN skip("missing_uri")
     ELSE IF ~Truthy(video_id) THEN skip("no_video_id")
     ELSE IF ~Truthy(current_title) THEN skip("no_title")
     ELSE IF ~Truthy(upload_date_str) THEN skip("no_created_time")
     ELSE IF ~dt_object.ok THEN skip("parse_error")
     ELSE IF Contains(formatted_date, current_title) THEN skip("already_dated")
     ELSE [branch |-> "rewrite", video_id |-> video_id,
           new_title |-> NewTitle(current_title, formatted_date)]

\* What PATCH /videos/{id} can come to.
PatchResults == {"ok", "http_error", "connection_error", "other_error"}

\* update_video_title without raise_for_status: every answer counts as done.
update_video_title_any_answer(result) == result \in PatchResults

\* update_video_title, lines 252-274: True on a 2xx answer, False on every
\* failure, all of them caught.
update_video_title(result) == result = "ok"

\* The remote's side of PATCH /videos/{id}: a request it answers with 2xx
\* has set the title it keeps for the video, any other has not.
Accepted(result, video_id) == result = "ok" /\ video_id \in AssetIds

\* Lines 430-485: one pass of the loop, on the video at position i.
UpdateStep ==
  /\ pc = "update"
  /\ i <= Len(all_recent_videos_from_scanned_folders)
  /\ LET d == TitleDecision(all_recent_videos_from_scanned_folders[i])
     IN IF d.branch # "rewrite"
        THEN /\ skipped_count' = skipped_count + 1
             /\ outcomes' = Append(outcomes, d.branch)
             /\ UNCHANGED <<calls, processed_count, patch_results, remote_title,
                            rewrites>>
        ELSE \E result \in PatchResults :
               /\ calls' = Append(calls, PatchVideo(d.video_id, d.new_title, i))
               /\ patch_results' = Append(patch_results, result)
               /\ IF Accepted(result, d.video_id)
                  THEN /\ remote_title' = [remote_title EXCEPT ![d.video_id] = d.new_title]
                       /\ rewrites' = [rewrites EXCEPT ![d.video_id] = Append(@, run)]
                  ELSE UNCHANGED <<remote_title, rewrites>>
               /\ IF update_video_title(result)
                  THEN /\ processed_count' = processed_count + 1
                       /\ skipped_count' = skipped_count
                       /\ outcomes' = Append(outcomes, "updated")
                  ELSE /\ processed_count' = processed_count
                       /\ skipped_count' = skipped_count + 1
                       /\ outcomes' = Append(outcomes, "update_failed")
  /\ i' = i + 1
  /\ UNCHANGED <<pc, exit, credentials, run, codecVars, me_response, authenticated_user_id,
                 forty_eight_hours_ago, listerVars, filterVars,
                 all_recent_videos_from_scanned_folders, summary_printed>>

\* Lines 487-490: after the last video the summary is printed.
PrintSummary ==
  /\ pc = "update"
  /\ i > Len(all_recent_videos_from_scanned_folders)
  /\ pc' = "done"
  /\ exit' = "summary"
  /\ summary_printed' = TRUE
  /\ UNCHANGED <<credentials, remoteVars, codecVars, calls, me_response, authenticated_user_id,
                 forty_eight_hours_ago, listerVars, filterVars,
                 all_recent_videos_from_scanned_folders, i, processed_count,
                 skipped_count, outcomes, patch_results>>

\* The loop entered at line 426 on any non-empty list (an empty one returns
\* at 422-424) that holds at most MaxVideos videos.
InitUpdater ==
  /\ pc = "update"
  /\ exit = "running"
  /\ credentials = TRUE
  /\ calls = <<>>
  /\ me_response = NoResponse
  /\ pages_seen = <<>>
  /\ authenticated_user_id = None
  /\ forty_eight_hours_ago = 0
  /\ all_videos = <<>>
  /\ page = 1
  /\ all_user_videos = <<>>
  /\ videos_to_process = <<>>
  /\ skipped_by_folder_count = 0
  /\ skipped_by_time_count = 0
  /\ all_recent_videos_from_scanned_folders \in Lists(UpdateInputs, MaxVideos) \ {<<>>}
  /\ i = 1
  /\ processed_count = 0
  /\ skipped_count = 0
  /\ outcomes = <<>>
  /\ patch_results = <<>>
  /\ summary_printed = FALSE
  /\ remote_title = [id \in AssetIds |-> None]
  /\ run = 1
  /\ rewrites = [id \in AssetIds |-> <<>>]
  /\ codec_uri = None
  /\ codec_video_id = NotCalled
  /\ codec_folder_id = NotCalled

NextUpdater ==
  \/ UpdateStep
  \/ PrintSummary

SpecUpdater == InitUpdater /\ [][NextUpdater]_vars

(* ----------------------------------------------------------------------- *)
(* The update loop over runs of main() in a row on the same remote videos  *)
(* ----------------------------------------------------------------------- *)

\* 'created_time' of the videos followed: it never changes.
AssetCreated(id) ==
  IF id = <<"1">> THEN VidA.created_time ELSE VidC.created_time

\* The titles the followed videos may have before the first run: undated, or
\* dated 2024-03-10.
InitialTitles ==
  {<<"S">>,
   <<"S", " ", "(", "2", "0", "2", "4", "-", "0", "3", "-", "1", "0", ")">>}

\* What a run is handed for the videos ids, in this order: each with the
\* title the remote keeps for it now (fields 'name,created_time,uri').
Snapshot(titles, ids) ==
  [k \in 1..Len(ids) |->
     [uri |-> VideosPrefix \o ids[k], name |-> titles[ids[k]],
      created_time |-> AssetCreated(ids[k]), parent_folder |-> NoFolder]]

\* The non-empty listings a run may be handed: each video at most once.
Listings == DistinctArrangements(AssetIds, MaxVideos) \ {<<>>}

\* The first run, entered at line 426 on a listing of the remote's videos.
InitRerun ==
  /\ pc = "update"
  /\ exit = "running"
  /\ credentials = TRUE
  /\ calls = <<>>
  /\ me_response = NoResponse
  /\ pages_seen = <<>>
  /\ authenticated_user_id = None
  /\ forty_eight_hours_ago = 0
  /\ all_videos = <<>>
  /\ page = 1
  /\ all_user_videos = <<>>
  /\ videos_to_process = <<>>
  /\ skipped_by_folder_count = 0
  /\ skipped_by_time_count = 0
  /\ remote_title \in [AssetIds -> InitialTitles]
  /\ \E ids \in Listings :
       all_recent_videos_from_scanned_folders = Snapshot(remote_title, ids)
  /\ i = 1
  /\ processed_count = 0
  /\ skipped_count = 0
  /\ outcomes = <<>>
  /\ patch_results = <<>>
  /\ summary_printed = FALSE
  /\ run = 1
  /\ rewrites = [id \in AssetIds |-> <<>>]
  /\ codec_uri = None
  /\ codec_video_id = NotCalled
  /\ codec_folder_id = NotCalled

\* main() is started again after a run that printed its summary: a new
\* process, whose loop is entered at line 426 with fresh counters on a
\* listing that carries the titles the remote keeps by then.
StartRun ==
  /\ pc = "done"
  /\ exit = "summary"
  /\ run < MaxRuns
  /\ run' = run + 1
  /\ pc' = "update"
  /\ exit' = "running"
  /\ \E ids \in Listings :
       all_recent_videos_from_scanned_folders' = Snapshot(remote_title, ids)
  /\ i' = 1
  /\ processed_count' = 0
  /\ skipped_count' = 0
  /\ outcomes' = <<>>
  /\ calls' = <<>>
  /\ patch_results' = <<>>
  /\ summary_printed' = FALSE
  /\ UNCHANGED <<credentials, me_response, authenticated_user_id,
                 forty_eight_hours_ago, listerVars, filterVars, remote_title,
                 rewrites, codecVars>>

NextRerun ==
  \/ UpdateStep
  \/ PrintSummary
  \/ StartRun

SpecRerun == InitRerun /\ [][NextRerun]_vars

(* ----------------------------------------------------------------------- *)
(* The URI codec called on its own                                         *)
(* ----------------------------------------------------------------------- *)

\* A value that is no string (an int, a dict).
NonString == <<"<int>">>

FoldersPrefix == <<"/", "f", "o", "l", "d", "e", "r", "s", "/">>

\* The arguments the codec is called on: None, a non-string, and the
\* strings lead + prefix + tail, the empty string among them.
CodecInputs ==
  {None, NonString} \cup
  {lead \o prefix \o tail :
     lead \in {<<>>, <<"/", "u", "s", "e", "r", "s", "/", "7">>,
               VideosPrefix \o <<"a">>},
     prefix \in {<<>>, VideosPrefix, FoldersPrefix,
                 <<"/", "v", "i", "d", "e", "o", "/">>},
     tail \in Lists({"4", "2", "a", "/"}, MaxTail)}

InitCodec ==
  /\ pc = "codec"
  /\ exit = "running"
  /\ credentials = TRUE
  /\ calls = <<>>
  /\ me_response = NoResponse
  /\ pages_seen = <<>>
  /\ authenticated_user_id = None
  /\ forty_eight_hours_ago = 0
  /\ all_videos = <<>>
  /\ page = 1
  /\ all_user_videos = <<>>
  /\ videos_to_process = <<>>
  /\ skipped_by_folder_count = 0
  /\ skipped_by_time_count = 0
  /\ all_recent_videos_from_scanned_folders = <<>>
  /\ i = 1
  /\ processed_count = 0
  /\ skipped_count = 0
  /\ outcomes = <<>>
  /\ patch_results = <<>>
  /\ summary_printed = FALSE
  /\ remote_title = [id \in AssetIds |-> None]
  /\ run = 1
  /\ rewrites = [id \in AssetIds |-> <<>>]
  /\ codec_uri \in CodecInputs
  /\ codec_video_id = NotCalled
  /\ codec_folder_id = NotCalled

\* video_id = get_video_id_from_uri(video_uri): lines 315 and 440
CallVideoId ==
  /\ pc = "codec"
  /\ codec_video_id = NotCalled
  /\ codec_video_id' = get_video_id_from_uri(codec_uri)
  /\ UNCHANGED <<pc, exit, credentials, calls, me_response, authenticated_user_id,
                 forty_eight_hours_ago, listerVars, filterVars, updateVars,
                 remoteVars, codec_uri, codec_folder_id>>

\* folder_id = get_folder_id_from_uri(parent_folder_uri): line 324
CallFolderId ==
  /\ pc = "codec"
  /\ codec_folder_id = NotCalled
  /\ codec_folder_id' = get_folder_id_from_uri(codec_uri)
  /\ UNCHANGED <<pc, exit, credentials, calls, me_response, authenticated_user_id,
                 forty_eight_hours_ago, listerVars, filterVars, updateVars,
                 remoteVars, codec_uri, codec_video_id>>

NextCodec ==
  \/ CallVideoId
  \/ CallFolderId

SpecCodec == InitCodec /\ [][NextCodec]_vars

(* ----------------------------------------------------------------------- *)
(* The body of the filter loop of main(), lines 312-354, on its own        *)
(* ----------------------------------------------------------------------- *)

\* The videos the loop body is run on: every combination of a 'uri' (of a
\* video, without digits), a 'created_time' (missing, newer than the cutoff,
\* older, no ISO string, without a zone) and a 'parent_folder' (none, an
\* excluded folder).
FilterInputs ==
  [uri : {VideosPrefix \o <<"1">>, VideosPrefix \o <<"a">>},
   name : {<<"S">>},
   created_time : {None, VidB.created_time, VidC.created_time, <<"x">>,
                   SubSeq(VidB.created_time, 1, 19)},
   parent_folder : {NoFolder, VidA.parent_folder}]

\* The names lines 344, 352 and 354 read (timezeone, video_ID) are bound
\* nowhere: NameError, which `except ValueError` does not catch.
FilterFailures ==
  {"NameError_324", "NameError_344", "NameError_352", "NameError_354"}

\* Lines 312-354 for one video, given the video_uri that line 311 is
\* written to read from it: what becomes of the video, or the line that
\* raises.
FilterVideo(video_info, video_uri, cutoff) ==
  LET upload_date_str == video_info.created_time
      parent_folder_info == video_info.parent_folder
      video_id == get_video_id_from_uri(video_uri)
      folder_id == get_folder_id_from_uri(parent_folder_info.uri)
      video_created_dt == fromisoformat(ReplaceZ(upload_date_str))
  IN IF ~Truthy(video_id) THEN "no_video_id"
     ELSE IF parent_folder_info.kind = "dict" /\ folder_id = NameError
     THEN "NameError_324"
     ELSE IF parent_folder_info.kind = "dict" /\ Truthy(folder_id)
             /\ folder_id \in EXCLUDED_FOLDER_IDS
     THEN "skipped_by_folder"
     ELSE IF ~Truthy(upload_date_str) THEN "NameError_354"
     ELSE IF ~video_created_dt.ok THEN "NameError_352"
     ELSE IF ~video_created_dt.aware THEN "NameError_344"
     ELSE IF Instant(video_created_dt) > cutoff THEN "selected"
     ELSE "skipped_by_time"

\* The loop entered at line 310 on any non-empty list (an empty one returns
\* at 301-303) of at most MaxVideos videos, its variables as 305-307 set them.
InitFilter ==
  /\ pc = "filter_312"
  /\ exit = "running"
  /\ credentials = TRUE
  /\ calls = <<>>
  /\ me_response = NoResponse
  /\ pages_seen = <<>>
  /\ authenticated_user_id = <<"7">>
  /\ forty_eight_hours_ago = Cutoff
  /\ all_videos = <<>>
  /\ page = 1
  /\ all_user_videos \in Lists(FilterInputs, MaxVideos) \ {<<>>}
  /\ videos_to_process = <<>>
  /\ skipped_by_folder_count = 0
  /\ skipped_by_time_count = 0
  /\ all_recent_videos_from_scanned_folders = <<>>
  /\ i = 1
  /\ processed_count = 0
  /\ skipped_count = 0
  /\ outcomes = <<>>
  /\ patch_results = <<>>
  /\ summary_printed = FALSE
  /\ remote_title = [id \in AssetIds |-> None]
  /\ run = 1
  /\ rewrites = [id \in AssetIds |-> <<>>]
  /\ codec_uri = None
  /\ codec_video_id = NotCalled
  /\ codec_folder_id = NotCalled

\* Lines 312-354: one pass of the loop, on the video at position i. A
\* NameError is caught nowhere and ends main().
FilterStep ==
  /\ pc = "filter_312"
  /\ i <= Len(all_user_videos)
  /\ LET video_info == all_user_videos[i]
         r == FilterVideo(video_info, video_info.uri, forty_eight_hours_ago)
     IN /\ IF r \in FilterFailures
           THEN pc' = "done" /\ exit' = r /\ i' = i
           ELSE pc' = pc /\ exit' = exit /\ i' = i + 1
        /\ videos_to_process' =
             IF r = "selected" THEN Append(videos_to_process, video_info)
             ELSE videos_to_process
        /\ skipped_by_folder_count' =
             skipped_by_folder_count + (IF r = "skipped_by_folder" THEN 1 ELSE 0)
        /\ skipped_by_time_count' =
             skipped_by_time_count + (IF r = "skipped_by_time" THEN 1 ELSE 0)
  /\ UNCHANGED <<credentials, calls, me_response, authenticated_user_id,
                 forty_eight_hours_ago, listerVars, all_user_videos,
                 all_recent_videos_from_scanned_folders, processed_count,
                 skipped_count, outcomes, patch_results, summary_printed,
                 remoteVars, codecVars>>

\* Lines 356-362: after the last video the totals are printed and
\* get_user_folders is called, a name only comment lines 129-189 mention:
\* NameError.
FilterEnd ==
  /\ pc = "filter_312"
  /\ i > Len(all_user_videos)
  /\ pc' = "done"
  /\ exit' = "NameError_362"
  /\ UNCHANGED <<credentials, calls, me_response, authenticated_user_id,
                 forty_eight_hours_ago, listerVars, filterVars, updateVars,
                 remoteVars, codecVars>>

NextFilter ==
  \/ FilterStep
  \/ FilterEnd

SpecFilter == InitFilter /\ [][NextFilter]_vars

(* ----------------------------------------------------------------------- *)
(* Properties of the run of main(): identity and listing                   *)
(* ----------------------------------------------------------------------- *)

\* get_all_user_videos has returned.
ListerDone == pc \in {"listed", "filter"} \/ exit \in {"no_videos", "UnboundLocalError"}

\* The videos the remote has delivered so far.
Stream == Flatten(pages_seen)

\* Newest first
Descending(videos) ==
  \A a, b \in 1..Len(videos) : a < b => CreatedAt(videos[a]) >= CreatedAt(videos[b])

IsNewer(v) == CreatedAt(v) > Cutoff

\* The response holds a video created at or before the cutoff.
HoldsOld(r) == \E j \in 1..Len(r.data) : ~IsNewer(r.data[j])

\* The response is a non-empty page with a next link.
HasNext(r) == r.kind = "ok" /\ r.data # <<>> /\ r.paging = "next"

\* The pages asked for, in order
PagesRequested ==
  LET IsList(c) == c.op = "GET /me/videos"
      lists == SelectSeq(calls, IsList)
  IN [k \in 1..Len(lists) |-> lists[k].page]

\* C1 as stated: on a descending stream, once page k holds a video created
\* at or before the cutoff, no page after k is requested.
C1_EarlyExitAtCutoff ==
  \A k \in 1..Len(pages_seen) :
    (Descending(Stream) /\ HoldsOld(pages_seen[k]))
      => \A n \in 1..Len(PagesRequested) : PagesRequested[n] <= k

\* C1 amended: the listing takes no account of the cutoff. Pages 1, 2, ... are
\* requested in order, page k + 1 exactly when page k was a non-empty page
\* with a next link (also when page k holds a video created at or before the
\* cutoff), and the listing ends only at a page that failed, was empty or
\* had no next link.
C1_StopsOnlyWithoutNextPage ==
  /\ PagesRequested = [k \in 1..Len(pages_seen) |-> k]
  /\ \A k \in 1..(Len(pages_seen) - 1) : HasNext(pages_seen[k])
  /\ (ListerDone /\ pages_seen # <<>>) => ~HasNext(pages_seen[Len(pages_seen)])
  /\ (pc = "listing" /\ pages_seen # <<>>) => HasNext(pages_seen[Len(pages_seen)])

\* A descending stream whose page k holds a video at or before the cutoff,
\* and a later page requested.
C1_Witness ==
  \E k \in 1..Len(pages_seen) :
    /\ Descending(Stream)
    /\ HoldsOld(pages_seen[k])
    /\ k < Len(pages_seen)
    /\ PagesRequested[k + 1] = k + 1

\* C2 as stated: on a descending stream the list returned holds exactly the
\* videos created after the cutoff, in arrival order.
C2_OnlyNewerThanCutoff ==
  (ListerDone /\ Descending(Stream)) => all_videos = SelectSeq(Stream, IsNewer)

\* C2 amended: the list returned holds every video of every page received,
\* in arrival order, whatever its creation time; main() receives that list.
C2_ReturnsEveryVideoListed ==
  /\ ListerDone => all_videos = Stream
  /\ pc = "filter" \/ exit \in {"no_videos", "UnboundLocalError"}
       => all_user_videos = Stream

\* A descending stream returned whole, a video at or before the cutoff and a
\* newer one in it.
C2_Witness ==
  /\ ListerDone
  /\ Descending(Stream)
  /\ \E a, b \in 1..Len(all_videos) : IsNewer(all_videos[a]) /\ ~IsNewer(all_videos[b])

\* GET /me failed: a transport failure, an error status, an undecodable
\* body, or a body without a 'uri'.
IdentityFailed ==
  \/ me_response.kind \in {"connection_error", "http_error", "bad_json"}
  \/ me_response.kind = "ok" /\ me_response.uri \in {None, <<>>}

\* C7: when identity resolution fails the run ends at once: GET /me is the
\* one request of the run (no retry, no listing, no rewrite).
C7_IdentityFailureAborts ==
  IdentityFailed => (pc = "done" /\ exit = "no_user_id" /\ calls = <<GetMe>>)

\* GET /me has failed, in each of the ways it can.
C7_Witness ==
  /\ IdentityFailed
  /\ pc = "done"
  /\ me_response.kind = "http_error"

\* C8: after identity resolution no run ends by an unhandled exception.
C8_NoUnhandledFailure ==
  exit # "UnboundLocalError"

Rewrites ==
  LET IsPatch(c) == c.op = "PATCH /videos/{id}" IN SelectSeq(calls, IsPatch)

\* C4 as stated: when a run that listed videos has ended, every listed video
\* created after the cutoff and in no folder is in the update loop's input.
C4_NoContainerReachesUpdater ==
  pc = "done" =>
    \A k \in 1..Len(all_user_videos) :
      (IsNewer(all_user_videos[k]) /\ all_user_videos[k].parent_folder.kind = "none")
        => \E n \in 1..Len(all_recent_videos_from_scanned_folders) :
             all_recent_videos_from_scanned_folders[n] = all_user_videos[k]

\* C10 as stated: the run that is delivered A, B, C newest first, every page
\* in order, ends with one rewrite, that of B, and the summary processed = 1,
\* skipped by folder = 1, every other counter 0.
C10_EndToEndScenario ==
  ( /\ pc = "done"
    /\ Stream = <<VidA, VidB, VidC>>
    /\ \A k \in 1..Len(pages_seen) : pages_seen[k].kind = "ok" )
  => /\ Len(Rewrites) = 1
     /\ Rewrites[1].video_id = get_video_id_from_uri(VidB.uri)
     /\ summary_printed
     /\ processed_count = 1
     /\ skipped_by_folder_count = 1
     /\ skipped_count = 0

(* ----------------------------------------------------------------------- *)
(* Properties of the title-update loop                                     *)
(* ----------------------------------------------------------------------- *)

\* The video at position k of the loop's input
VideoAt(k) == all_recent_videos_from_scanned_folders[k]

\* The requests sent while the loop was at position k
CallsAt(k) == LET At(c) == c.at = k IN SelectSeq(calls, At)

\* The video has a title and a creation time that parses.
HasTitleAndDate(v) ==
  /\ Truthy(v.name)
  /\ Truthy(v.created_time)
  /\ fromisoformat(ReplaceZ(v.created_time)).ok

\* YYYY-MM-DD of the creation time: the first ten characters of the ISO string
DateTag(v) == SubSeq(v.created_time, 1, 10)

HasVideoId(v) == Truthy(v.uri) /\ Truthy(get_video_id_from_uri(v.uri))

\* The positions handled so far that were not counted as processed
SkippedSoFar == {k \in 1..Len(outcomes) : outcomes[k] # "updated"}

\* C5: a video whose title holds its date tag is skipped without a request,
\* each time the loop meets it: the branch is the already-dated one (or, for
\* a video without an id, an earlier skip), the skipped counter counts it,
\* and no request is sent for it.
C5_AlreadyTaggedIsSkipped ==
  /\ \A k \in 1..Len(outcomes) :
       (HasTitleAndDate(VideoAt(k)) /\ Contains(DateTag(VideoAt(k)), VideoAt(k).name))
         => /\ CallsAt(k) = <<>>
            /\ k \in SkippedSoFar
            /\ outcomes[k] = IF ~Truthy(VideoAt(k).uri) THEN "missing_uri"
                             ELSE IF ~HasVideoId(VideoAt(k)) THEN "no_video_id"
                             ELSE "already_dated"
  /\ skipped_count = Cardinality(SkippedSoFar)
  /\ processed_count = Len(outcomes) - Cardinality(SkippedSoFar)

\* The same dated video met twice in one run, skipped both times, and the
\* summary printed.
C5_Witness ==
  /\ summary_printed
  /\ Len(outcomes) = 2
  /\ VideoAt(1) = VideoAt(2)
  /\ HasTitleAndDate(VideoAt(1))
  /\ Contains(DateTag(VideoAt(1)), VideoAt(1).name)
  /\ outcomes = <<"already_dated", "already_dated">>
  /\ calls = <<>>

\* The one request C6 expects for the video at position k
ExpectedRewrite(k) ==
  PatchVideo(get_video_id_from_uri(VideoAt(k).uri),
             VideoAt(k).name \o <<" ", "(">> \o DateTag(VideoAt(k)) \o <<")">>,
             k)

\* C6 as stated: for every video with a title and a parsable creation time
\* whose title does not hold the date tag, exactly one request is sent: the
\* rewrite of that video's title to title + " (" + dateTag + ")".
C6_UntaggedIsRewritten ==
  \A k \in 1..Len(outcomes) :
    (HasTitleAndDate(VideoAt(k)) /\ ~Contains(DateTag(VideoAt(k)), VideoAt(k).name))
      => CallsAt(k) = <<ExpectedRewrite(k)>>

\* C6 amended: the same, for the videos whose uri yields a video id; a video
\* whose uri is missing or holds no id is skipped without a request.
C6_UntaggedWithIdIsRewritten ==
  \A k \in 1..Len(outcomes) :
    (HasTitleAndDate(VideoAt(k)) /\ ~Contains(DateTag(VideoAt(k)), VideoAt(k).name))
      => IF HasVideoId(VideoAt(k))
         THEN CallsAt(k) = <<ExpectedRewrite(k)>>
         ELSE CallsAt(k) = <<>> /\ k \in SkippedSoFar

\* An undated video uploaded on another day than the run's was rewritten.
C6_Witness ==
  \E k \in 1..Len(outcomes) :
    /\ HasTitleAndDate(VideoAt(k))
    /\ HasVideoId(VideoAt(k))
    /\ DateTag(VideoAt(k)) # SubSeq(NowStr, 1, 10)
    /\ outcomes[k] = "updated"
    /\ CallsAt(k) = <<ExpectedRewrite(k)>>

(* ----------------------------------------------------------------------- *)
(* Properties of the paging of get_all_user_videos                         *)
(* ----------------------------------------------------------------------- *)

\* The response is a page with a next link that holds a video created after
\* the cutoff.
HasNextAndNewer(r) ==
  /\ r.kind = "ok"
  /\ r.paging = "next"
  /\ \E j \in 1..Len(r.data) : IsNewer(r.data[j])

\* C12 as stated: pages are requested in order from 1, each once, and page
\* n + 1 is requested only after a page n that had a next link and held a
\* video created after the cutoff.
C12_ContinuesOnlyOnNewerVideo ==
  /\ PagesRequested = [k \in 1..Len(pages_seen) |-> k]
  /\ \A n \in 1..(Len(pages_seen) - 1) : HasNextAndNewer(pages_seen[n])

\* C12 amended: pages are requested in order from 1, each once, and page
\* n + 1 is requested only after a page n that had a next link and held at
\* least one video, whatever its creation time; after a page that failed, was
\* empty or had no next link the loop has stopped and no page follows.
C12_ContinuesOnlyOnNextAndVideos ==
  /\ PagesRequested = [k \in 1..Len(pages_seen) |-> k]
  /\ \A n \in 1..Len(pages_seen) :
       IF HasNext(pages_seen[n])
       THEN n < Len(pages_seen) \/ pc = "listing"
       ELSE n = Len(pages_seen) /\ pc # "listing"

\* Three pages requested, the second one after a page that held no video
\* created after the cutoff.
C12_Witness ==
  /\ Len(pages_seen) = 3
  /\ PagesRequested = <<1, 2, 3>>
  /\ ~HasNextAndNewer(pages_seen[1])
  /\ pc = "listed"

(* ----------------------------------------------------------------------- *)
(* Properties of the counters of the update loop                           *)
(* ----------------------------------------------------------------------- *)

\* The PATCH requests the remote has accepted
SuccessfulRewrites == {k \in 1..Len(patch_results) : patch_results[k] = "ok"}

\* The videos the loop has handled so far
Handled == i - 1

\* After each pass, and at the summary, the two counters add up to the
\* number of videos handled and processed_count is the number of accepted
\* PATCH requests.
CountersAddUp ==
  /\ Handled = Len(outcomes)
  /\ processed_count + skipped_count = Handled
  /\ processed_count = Cardinality(SuccessfulRewrites)
  /\ summary_printed => Handled = Len(all_recent_videos_from_scanned_folders)

\* One pass moves exactly one counter, by one: processed_count when its
\* PATCH request was accepted, skipped_count in every other case.
OneCounterPerVideo ==
  i' # i =>
    /\ i' = i + 1
    /\ IF Len(patch_results') > Len(patch_results)
          /\ patch_results'[Len(patch_results')] = "ok"
       THEN processed_count' = processed_count + 1 /\ skipped_count' = skipped_count
       ELSE processed_count' = processed_count /\ skipped_count' = skipped_count + 1

\* C15: in the update loop every video moves exactly one of processed_count
\* and skipped_count by one (processed_count on an accepted rewrite,
\* skipped_count otherwise), so after every pass and at the summary their
\* sum is the number of videos handled and processed_count is the number of
\* accepted rewrite requests.
C15_CounterAccounting == []CountersAddUp /\ [][OneCounterPerVideo]_vars

\* The summary of a loop that updated one video, failed on another's request
\* and so counted one of each.
C15_Witness ==
  /\ summary_printed
  /\ processed_count = 1
  /\ skipped_count = 1
  /\ \E k \in 1..Len(outcomes) : outcomes[k] = "update_failed"

(* ----------------------------------------------------------------------- *)
(* Properties of runs in a row                                             *)
(* ----------------------------------------------------------------------- *)

\* " (YYYY-MM-DD)" for the creation date of the followed video id
Suffix(id) == <<" ", "(">> \o SubSeq(AssetCreated(id), 1, 10) \o <<")">>

\* How many times needle occurs in hay
Occurrences(needle, hay) ==
  Cardinality({j \in 0..(Len(hay) - Len(needle)) :
                 SubSeq(hay, j + 1, j + Len(needle)) = needle})

\* An earlier run had its rewrite of the video id accepted.
RewrittenBefore(id) ==
  \E n \in 1..Len(rewrites[id]) : rewrites[id][n] < run

PrefixThenDigit(prefix, uri) ==
  {p \in 1..Len(uri) :
     /\ p + Len(prefix) <= Len(uri)
     /\ \A j \in 1..Len(prefix) : uri[p + j - 1] = prefix[j]
     /\ uri[p + Len(prefix)] \in Digits}

\* The id the codec is specified to return: None for a value that is no
\* string or holds no prefix followed by a digit, else the digits that
\* follow the first such prefix, up to the first character that is no digit.
SpecifiedId(prefix, uri) ==
  IF ~IsStr(uri) \/ PrefixThenDigit(prefix, uri) = {} THEN None
  ELSE LET p == CHOOSE q \in PrefixThenDigit(prefix, uri) :
                  \A r \in PrefixThenDigit(prefix, uri) : q <= r
           from == p + Len(prefix)
           to == CHOOSE e \in from..Len(uri) :
                   /\ \A j \in from..e : uri[j] \in Digits
                   /\ e = Len(uri) \/ uri[e + 1] \notin Digits
       IN SubSeq(uri, from, to)

\* get_video_id_from_uri raises nothing and returns the specified id.
VideoIdAsSpecified ==
  codec_video_id # NotCalled =>
    codec_video_id = SpecifiedId(VideosPrefix, codec_uri)

\* get_folder_id_from_uri raises nothing and returns the specified id.
FolderIdAsSpecified ==
  codec_folder_id # NotCalled =>
    codec_folder_id = SpecifiedId(FoldersPrefix, codec_uri)

\* C11: on every argument (None, the empty string, a non-string, any
\* string) neither codec function fails; each returns the digits after
\* '/videos/' (resp. '/folders/') when the argument holds that pattern and
\* None when it does not.
C11_CodecTotal == VideoIdAsSpecified /\ FolderIdAsSpecified

(* ----------------------------------------------------------------------- *)
(* Properties of the time filter                                           *)
(* ----------------------------------------------------------------------- *)

\* The video reaches the time check of lines 339-354: it has an id and is in
\* no folder.
ReachesTimeCheck(v) == HasVideoId(v) /\ v.parent_folder.kind = "none"

\* 'created_time' is there and parses.
Parsable(v) ==
  Truthy(v.created_time) /\ fromisoformat(ReplaceZ(v.created_time)).ok

\* A video the time check is to select: created after the cutoff, as an
\* instant with a zone says.
ValidAndNewer(v) ==
  /\ Parsable(v)
  /\ fromisoformat(ReplaceZ(v.created_time)).aware
  /\ CreatedAt(v) > Cutoff

\* C13: a video whose created_time is missing or does not parse is skipped
\* alone: the loop does not end at it, and once the loop is over every
\* later video with a valid created_time after the cutoff is selected.
C13_ParseSkipContinues ==
  \A k \in 1..Len(all_user_videos) :
    (ReachesTimeCheck(all_user_videos[k]) /\ ~Parsable(all_user_videos[k])) =>
      /\ ~(pc = "done" /\ i = k)
      /\ pc = "done" =>
           \A m \in (k + 1)..Len(all_user_videos) :
             (ReachesTimeCheck(all_user_videos[m])
                /\ ValidAndNewer(all_user_videos[m])) =>
               \E n \in 1..Len(videos_to_process) :
                 videos_to_process[n] = all_user_videos[m]

====
